---- MODULE Spec2Model ----
(***************************************************************************)
(* A model of lib/twitter.js: the filter set, the three backoff closures,  *)
(* connect / abort / reconnect, the 'response' and 'error' handlers of the *)
(* request, the reconnect timers, the stall watchdog and _write.           *)
(*                                                                         *)
(* The client object is one record `c` (its fields are the variables of    *)
(* the module); every method of the source is an operator from a record to *)
(* the record after the call, so that a handler that calls abort() and     *)
(* then connect() is the composition of the operators.                     *)
(***************************************************************************)
EXTENDS Integers, Sequences, FiniteSets, TLC

VARIABLES
  filters,         \* this._filters: kind -> <<[key, count], ...>> in insertion order
  stale,           \* this.stale (undefined at construction, read as false)
  stream,          \* this.stream: id of the request it references, 0 for null/undefined
  parser,          \* this.parser: id of the request whose parser it references, 0 for none
  timeout,         \* whether the timer whose handle is in this.timeout is armed
  connectBackoff,  \* this.connectBackoff, a delay
  networkBackoff,  \* `current` of the closure this.networkBackoff
  httpBackoff,     \* `current` of the closure this.httpBackoff
  rateBackoff,     \* `current` of the closure this.rateBackoff
  errorListeners,  \* whether a once('error') listener of connect() is registered
  transports,      \* the requests issued and neither aborted nor ended
  timers,          \* pending reconnect timers, by the handler that scheduled them
  stallTimers,     \* armed stall timers whose handle this.timeout no longer holds
  crashed,         \* an exception left a handler uncaught
  obs,             \* what the last operation was and what it did
  used,            \* per closure: whether it was called, and the last value it returned
  refs,            \* per kind and keyword: the adds minus the removes that found a reference
  window           \* the 420 responses handled since a reconnect timer last fired

vars == <<filters, stale, stream, parser, timeout, connectBackoff, networkBackoff,
          httpBackoff, rateBackoff, errorListeners, transports, timers,
          stallTimers, crashed, obs, used, refs, window>>

---------------------------------------------------------------------------
\* Bounds of the model.

\* keywords a caller uses, per filter kind
NumKeywords == 1
\* references held on keywords, all kinds together
MaxRefs == 2
\* length of a keyword list passed to addFilter
MaxListLen == 2
\* requests alive at once (the one in this.stream and those it no longer references)
MaxLive == 2
\* reconnect timers pending at once
MaxTimers == 2
\* armed stall timers that this.timeout no longer references
MaxStall == 1
\* draws from one backoff closure between two resets, in Spec
MaxDraws == 2
\* Math.random() returns u / RandomDenom for u in 0 .. RandomDenom - 1
RandomDenom == 2
\* fields a decoded record carries
MaxFields == 2
\* filter kinds the host uses, in the order tracking, location, follow, language
NumKinds == 1

---------------------------------------------------------------------------
\* Constants of the program.

FILTER_TYPE_TRACKING == "tracking"
FILTER_TYPE_LOCATION == "location"
FILTER_TYPE_FOLLOW == "follow"
FILTER_TYPE_LANGUAGE == "language"
KindList == <<FILTER_TYPE_TRACKING, FILTER_TYPE_LOCATION, FILTER_TYPE_FOLLOW, FILTER_TYPE_LANGUAGE>>
Kinds == {KindList[i] : i \in 1 .. Len(KindList)}
Keywords == 1 .. NumKeywords
\* A keyword that names a property every object inherits from Object.prototype,
\* such as 'constructor': this._filters[kind] is an object literal, {}.
PrototypeKeys == {0}
AllKeywords == Keywords \cup PrototypeKeys
\* The count NaN: what ++ and -- make of a value that is not a number.
NaN == -1

timeoutInterval == 1000 * 90

NetworkInitial == 0
NetworkMax == 16 * 1000
HttpInitial == 1000
HttpMax == 320 * 1000
RateInitial == 1000
RateMax == 2147483647

\* The code's numbers are doubles, so 2 * 2097152000 is exact there. Every value
\* above 2147483647 is this one token: it exceeds every ceiling of the program, and
\* a closure that found its value above the ceiling never steps again.
Unrepresentable == -1

NetworkStep(x) == x + 250
Times2(x) == IF x = Unrepresentable \/ x > RateMax \div 2 THEN Unrepresentable ELSE x * 2
HttpStep(x) == Times2(x)
RateStep(x) == Times2(x)

\* current >= max: the test of backoff() with >= for >.
Reaches(current, max) == current = Unrepresentable \/ current >= max

\* current > max
Exceeds(current, max) == current = Unrepresentable \/ current > max

\* The step function backoffs() gives to the closure of tier.
step(tier, x) ==
  CASE tier = "network" -> NetworkStep(x)
    [] tier = "http" -> HttpStep(x)
    [] tier = "rate" -> RateStep(x)

\* One call of the function backoff() returns: either it throws, or it returns
\* _value and leaves the closure at step(current), step being the function of tier.
backoff(current, max, tier) ==
  IF Exceeds(current, max)
    THEN [threw |-> TRUE, value |-> 0, current |-> current]
    ELSE [threw |-> FALSE, value |-> current, current |-> step(tier, current)]

\* The table errorExplanation: the type of a status code, "undefined" outside it.
errorExplanation(code) ==
  CASE code = 401 -> "unauthorized"
    [] code = 403 -> "forbidden"
    [] code = 404 -> "not-found"
    [] code = 406 -> "not-acceptable"
    [] code = 413 -> "too-long"
    [] code = 416 -> "range-unacceptable"
    [] code = 420 -> "rate-limit"
    [] code = 503 -> "service-unavailable"
    [] OTHER -> "undefined"

\* A delay in ms: backoff + (backoff * Math.random() * 0.5 - backoff * 0.25) with
\* Math.random() = random / RandomDenom, that is
\* backoff * (3 * RandomDenom + 2 * random) / (4 * RandomDenom), kept as the pair it
\* is computed from (the product does not fit TLC's integers for the late values of
\* the rate-limit sequence). The factor is at least 3/4, so the delay is 0 exactly
\* when backoff is 0.
Zero == [backoff |-> 0, random |-> 0]
Jitter(b, u) == IF b = 0 THEN Zero ELSE [backoff |-> b, random |-> u]

---------------------------------------------------------------------------
\* The client object and the operations on it.

Self ==
  [filters |-> filters, stale |-> stale, stream |-> stream, parser |-> parser,
   timeout |-> timeout, connectBackoff |-> connectBackoff,
   networkBackoff |-> networkBackoff, httpBackoff |-> httpBackoff,
   rateBackoff |-> rateBackoff, errorListeners |-> errorListeners,
   transports |-> transports, timers |-> timers, stallTimers |-> stallTimers,
   crashed |-> crashed, obs |-> obs, used |-> used, refs |-> refs, over |-> FALSE]

\* What is known of a closure: "fresh" (made by backoffs(), in the constructor or in
\* the 200 branch, and not called since) or "drawn" (called), and the last value it
\* returned.
Tiers == {"network", "http", "rate"}
Fresh == [state |-> "fresh", last |-> 0]

\* A notification: emit(ev, this, ...).
Event(ev, type, code, delay) == [ev |-> ev, type |-> type, code |-> code, delay |-> delay]

\* The fields _write looks at, in its order, and a line that carries no record.
Fields == <<"text", "delete", "scrub_geo", "limit", "status_withheld",
            "user_withheld", "disconnect", "warning">>
FieldNames == {Fields[i] : i \in 1 .. Len(Fields)}
NoRecord == [f \in FieldNames |-> "absent"]
NoLine == [json |-> FALSE, data |-> NoRecord]

\* The record of an operation as it starts: nothing emitted, issued, aborted or scheduled.
Started(op, arg) ==
  [op |-> op, arg |-> arg, out |-> <<>>, connects |-> 0, issued |-> 0,
   aborted |-> 0, scheduled |-> 0, threw |-> "no",
   drew |-> "", raw |-> 0, from |-> Fresh, line |-> NoLine]

Begin(c, op, arg) == [c EXCEPT !.obs = Started(op, arg)]

emit(c, e) == [c EXCEPT !.obs.out = Append(@, e)]

\* Object.keys(this._filters[kind])
Keys(f) == [i \in 1 .. Len(f) |-> f[i].key]

\* Array.prototype.join(',')
RECURSIVE join(_)
join(keys) ==
  IF Len(keys) = 0 THEN <<>>
  ELSE IF Len(keys) = 1 THEN <<keys[1]>>
  ELSE <<keys[1], ",">> \o join(Tail(keys))

tracking(c) == Keys(c.filters[FILTER_TYPE_TRACKING])
locations(c) == Keys(c.filters[FILTER_TYPE_LOCATION])
following(c) == Keys(c.filters[FILTER_TYPE_FOLLOW])
languages(c) == Keys(c.filters[FILTER_TYPE_LANGUAGE])

hasFilters(c) ==
  Len(tracking(c)) > 0 \/ Len(locations(c)) > 0 \/ Len(following(c)) > 0 \/ Len(languages(c)) > 0

\* The form of the request connect() posts.
Form(c) ==
  [track |-> join(Keys(c.filters[FILTER_TYPE_TRACKING])),
   locations |-> join(Keys(c.filters[FILTER_TYPE_LOCATION])),
   follow |-> join(Keys(c.filters[FILTER_TYPE_FOLLOW])),
   language |-> join(Keys(c.filters[FILTER_TYPE_LANGUAGE]))]

NoForm == [track |-> <<>>, locations |-> <<>>, follow |-> <<>>, language |-> <<>>]
NoTransport == [phase |-> "none", form |-> NoForm, piped |-> FALSE]
Ids == 1 .. MaxLive
Live(c) == {t \in Ids : c.transports[t].phase # "none"}
Free(c) == Ids \ Live(c)
Lowest(S) == CHOOSE t \in S : \A u \in S : t <= u

\* A request is over (aborted, failed, or answered with an error status): it raises
\* no further event, and a parser that was piped from it has nothing left to destroy.
EndTransport(c, t) ==
  [c EXCEPT !.transports[t] = NoTransport,
            !.parser = IF @ = t THEN 0 ELSE @]

\* Twitter.prototype.abort
abort(c) ==
  LET destroyed == IF c.parser # 0
                     THEN [c EXCEPT !.transports[c.parser].piped = FALSE]
                     ELSE c
      cleared == [destroyed EXCEPT !.timeout = FALSE]
      aborted == IF cleared.stream # 0
                   THEN [EndTransport(cleared, cleared.stream) EXCEPT !.obs.aborted = cleared.stream]
                   ELSE cleared
  IN [aborted EXCEPT !.stream = 0]

\* connect() without its hasFilters() test.
connectWithoutTest(c) ==
  LET c1 == [c EXCEPT !.stale = FALSE, !.obs.connects = @ + 1]
  IN IF Free(c1) = {} THEN [c1 EXCEPT !.over = TRUE]
     ELSE LET id == Lowest(Free(c1))
          IN [c1 EXCEPT !.transports[id] =
                           [phase |-> "connecting", form |-> Form(c1), piped |-> FALSE],
                        !.stream = id,
                        !.errorListeners = TRUE,
                        !.obs.issued = id]

\* Twitter.prototype.connect
connect(c) ==
  LET c1 == [c EXCEPT !.stale = FALSE, !.obs.connects = @ + 1]
  IN IF ~hasFilters(c1) THEN c1
     ELSE IF Free(c1) = {} THEN [c1 EXCEPT !.over = TRUE]
     ELSE LET id == Lowest(Free(c1))
          IN [c1 EXCEPT !.transports[id] =
                           [phase |-> "connecting", form |-> Form(c1), piped |-> FALSE],
                        !.stream = id,
                        !.errorListeners = TRUE,
                        !.obs.issued = id]

\* reconnect() without its test of this.stale.
reconnectAlways(c) == connect(IF c.stream # 0 THEN abort(c) ELSE c)

\* Twitter.prototype.reconnect
reconnect(c) ==
  IF c.stale
    THEN connect(IF c.stream # 0 THEN abort(c) ELSE c)
    ELSE c

\* The index of keyword in one kind's object, 0 when it is not a key.
IndexOf(f, keyword) ==
  IF \E i \in 1 .. Len(f) : f[i].key = keyword
    THEN CHOOSE i \in 1 .. Len(f) : f[i].key = keyword
    ELSE 0

\* delete obj[key]
Without(f, i) == SubSeq(f, 1, i - 1) \o SubSeq(f, i + 1, Len(f))

\* this._filters[filter][keyword]: the count of an own key, "function" for a key
\* the object inherits and does not own, "undefined" for any other.
Get(f, keyword) ==
  IF IndexOf(f, keyword) # 0 THEN "number"
  ELSE IF keyword \in PrototypeKeys THEN "function"
  ELSE "undefined"

\* this._filters[filter][keyword] = count, a key the object does not own going last
Put(f, keyword, count) ==
  IF IndexOf(f, keyword) # 0
    THEN [f EXCEPT ![IndexOf(f, keyword)].count = count]
    ELSE Append(f, [key |-> keyword, count |-> count])

\* One more reference, one fewer if there is one.
Counted(c, filter, keyword) == [c EXCEPT !.refs[filter][keyword] = @ + 1]
Released(c, filter, keyword) ==
  [c EXCEPT !.refs[filter][keyword] = IF @ > 0 THEN @ - 1 ELSE 0]

\* The body of the forEach of addFilter, on the pair (client, addedNewKeyword).
addKeyword(p, filter, keyword) ==
  LET f == p.c.filters[filter]
      i == IndexOf(f, keyword)
      c == Counted(p.c, filter, keyword)
  IN IF Get(f, keyword) = "number" /\ f[i].count # NaN
       THEN [p EXCEPT !.c = [c EXCEPT !.filters[filter][i].count = @ + 1]]
     ELSE IF Get(f, keyword) = "function"
       THEN [p EXCEPT !.c = [c EXCEPT !.filters[filter] = Put(f, keyword, NaN)]]
     ELSE [c |-> [c EXCEPT !.filters[filter] = Put(f, keyword, 1),
                           !.stale = TRUE],
           added |-> TRUE]

RECURSIVE forEachKeyword(_, _, _)
forEachKeyword(p, filter, keywords) ==
  IF Len(keywords) = 0 THEN p
  ELSE forEachKeyword(addKeyword(p, filter, keywords[1]), filter, Tail(keywords))

\* Twitter.prototype.addFilter (keywords already an array)
addFilter(c, filter, keywords, reconn) ==
  LET p == forEachKeyword([c |-> c, added |-> FALSE], filter, keywords)
  IN IF reconn /\ p.added THEN reconnect(p.c) ELSE p.c

\* Twitter.prototype.removeFilter
removeFilter(c0, filter, keyword, reconn) ==
  LET f == c0.filters[filter]
      i == IndexOf(f, keyword)
      c == Released(c0, filter, keyword)
  IN IF Get(f, keyword) = "undefined" THEN c
     ELSE IF Get(f, keyword) = "function" \/ f[i].count = NaN
       THEN [c EXCEPT !.filters[filter] = Put(f, keyword, NaN)]
     ELSE IF f[i].count - 1 = 0
       THEN LET c1 == [c EXCEPT !.filters[filter] = Without(f, i), !.stale = TRUE]
            IN IF reconn THEN reconnect(c1) ELSE c1
       ELSE [c EXCEPT !.filters[filter][i].count = @ - 1]

\* Twitter.prototype.removeAllFilters
removeAllFilters(c, filter, reconn) ==
  IF filter \notin Kinds THEN c
  ELSE LET c1 == [c EXCEPT !.filters[filter] = <<>>, !.stale = TRUE,
                           !.refs[filter] = [keyword \in AllKeywords |-> 0]]
       IN IF reconn THEN reconnect(c1) ELSE c1

---------------------------------------------------------------------------
\* backoffs() that leaves this.rateBackoff as it is.
backoffsWithoutRate(c) ==
  [c EXCEPT !.networkBackoff = NetworkInitial,
            !.httpBackoff = HttpInitial]

\* Twitter.prototype.backoffs: three fresh closures.
backoffs(c) ==
  [c EXCEPT !.networkBackoff = NetworkInitial,
            !.httpBackoff = HttpInitial,
            !.rateBackoff = RateInitial]

\* The closures backoffs() made are not called yet.
Renewed(c) == [c EXCEPT !.used = [tier \in Tiers |-> Fresh]]

\* An exception leaves the running handler: nothing after the throw is executed.
throw(c, what) == [c EXCEPT !.crashed = TRUE, !.obs.threw = what]

\* The callback of the timer the 'response' handler sets.
responseTimerCallback(c) == connect([c EXCEPT !.connectBackoff = Zero])

\* The callback of the timer the 'error' handler sets: it assigns
\* self.inConnectBackoff, a field nothing reads, and leaves connectBackoff as it is.
errorTimerCallback(c) == connect(c)

\* if (this.connectBackoff == 0) { this.connectBackoff = backoff; setTimeout(...) }
scheduleReconnect(c, delay, by) ==
  IF c.connectBackoff = Zero
    THEN IF c.timers.resp + c.timers.net >= MaxTimers
           THEN [c EXCEPT !.over = TRUE]
           ELSE [c EXCEPT !.connectBackoff = delay,
                          !.timers[by] = @ + 1,
                          !.obs.scheduled = @ + 1]
    ELSE c

\* The listener connect() registers with once('error'): its argument err is the
\* first argument of emit('error', this, {...}), the client, which has no field
\* `explain`, so that err.explain.long throws a TypeError out of emit.
onceErrorListener(c) ==
  IF c.errorListeners
    THEN throw([c EXCEPT !.errorListeners = FALSE], "TypeError")
    ELSE c

\* A call of one of the three closures: the client after it, with the value it
\* returned in obs.raw, or what it threw in obs.threw.
called(c, tier, b) ==
  LET noted == [c EXCEPT !.obs.drew = tier, !.obs.from = c.used[tier]]
  IN IF b.threw
       THEN [noted EXCEPT !.obs.threw = "Exceeded twitter rate limit"]
       ELSE [noted EXCEPT !.obs.raw = b.value,
                          !.used[tier] = [state |-> "drawn", last |-> b.value]]
callNetworkBackoff(c) ==
  LET b == backoff(c.networkBackoff, NetworkMax, "network")
  IN called([c EXCEPT !.networkBackoff = b.current], "network", b)
callHttpBackoff(c) ==
  LET b == backoff(c.httpBackoff, HttpMax, "http")
  IN called([c EXCEPT !.httpBackoff = b.current], "http", b)
callRateBackoff(c) ==
  LET b == backoff(c.rateBackoff, RateMax, "rate")
  IN called([c EXCEPT !.rateBackoff = b.current], "rate", b)

\* The 420 / 503 branch of the 'response' handler, from request t.
rateLimited(c, t, statusCode, u) ==
  LET c1 == IF statusCode = 420 THEN callRateBackoff(c) ELSE callHttpBackoff(c)
  IN IF c1.obs.threw # "no" THEN throw(c1, c1.obs.threw)
     ELSE LET c2 == abort(c1)
              c3 == scheduleReconnect(c2, Jitter(c1.obs.raw, u), "resp")
              c4 == emit(c3, Event("reconnect", errorExplanation(statusCode),
                                   statusCode, c3.connectBackoff))
          IN EndTransport(c4, t)

\* The branch for the other status codes, without its this.abort().
httpErrorWithoutAbort(c, t, statusCode) ==
  EndTransport(onceErrorListener(emit(c, Event("error", "http", statusCode, Zero))), t)

\* The branch of the 'response' handler for the other status codes above 200.
httpError(c, t, statusCode) ==
  LET c1 == abort(c)
      c2 == emit(c1, Event("error", "http", statusCode, Zero))
  IN EndTransport(onceErrorListener(c2), t)

\* this.timeout = setTimeout(close, this.timeoutInterval), with no clearTimeout of
\* the handle this.timeout held.
armStallTimer(c) ==
  IF c.timeout
    THEN IF c.stallTimers >= MaxStall
           THEN [c EXCEPT !.over = TRUE]
           ELSE [c EXCEPT !.stallTimers = @ + 1]
    ELSE [c EXCEPT !.timeout = TRUE]

\* The 200 branch of the 'response' handler, from request t.
alive(c, t) ==
  LET c1 == Renewed(backoffs(c))
      c2 == emit(c1, Event("connect", "", 0, Zero))
      c3 == [c2 EXCEPT !.parser = t,
                       !.transports[t].phase = "streaming",
                       !.transports[t].piped = TRUE]
  IN armStallTimer(c3)

\* this.stream.on('response', ...), raised by request t.
onResponse(c, t, statusCode, u) ==
  IF statusCode = 420 \/ statusCode = 503 THEN rateLimited(c, t, statusCode, u)
  ELSE IF statusCode > 200 THEN httpError(c, t, statusCode)
  ELSE alive(c, t)

\* this.stream.on('error', ...), raised by request t.
onError(c, t, u) ==
  LET c1 == callNetworkBackoff(EndTransport(abort(c), t))
  IN IF c1.obs.threw # "no" THEN throw(c1, c1.obs.threw)
     ELSE LET c2 == scheduleReconnect(c1, Jitter(c1.obs.raw, u), "net")
          IN emit(c2, Event("reconnect", "network", 0, c2.connectBackoff))

\* close that goes through reconnect(), which connects only when stale is set.
closeIfStale(c) == reconnect(emit(abort(c), Event("reconnect", "stall", 0, Zero)))

\* close, the callback of the stall timer: abort, connect on the next tick, emit.
close(c) == connect(emit(abort(c), Event("reconnect", "stall", 0, Zero)))

\* res.on('data', ...): clearTimeout(self.timeout), then a new timer.
onData(c) == [c EXCEPT !.timeout = TRUE]

---------------------------------------------------------------------------
\* Decoded records and Twitter.prototype._write.

\* if (data.<field>): the field is there and its value is not falsy
Truthy(data, field) == data[field] = "truthy"

\* The event _write emits for data, "" for none.
Classify(data) ==
  IF Truthy(data, "text") THEN "tweet"
  ELSE IF Truthy(data, "delete") THEN "delete"
  ELSE IF Truthy(data, "scrub_geo") THEN "scrub_geo"
  ELSE IF Truthy(data, "limit") THEN "limit"
  ELSE IF Truthy(data, "status_withheld") THEN "status_withheld"
  ELSE IF Truthy(data, "user_withheld") THEN "user_withheld"
  ELSE IF Truthy(data, "disconnect") THEN "disconnect"
  ELSE IF Truthy(data, "warning") THEN "warning"
  ELSE ""

\* Twitter.prototype._write
write(c, data) ==
  IF Classify(data) # "" THEN emit(c, Event(Classify(data), "", 0, Zero)) ELSE c

\* The mapper given to split: JSON.parse(d), or undefined when it throws; split
\* passes on only what is not undefined.
Parse(line) == IF line.json THEN <<line.data>> ELSE <<>>

\* onLine that destroys the parser at a line JSON.parse rejects.
onLineHalting(c, t, line) ==
  IF c.transports[t].piped /\ Parse(line) # <<>>
    THEN write(c, Parse(line)[1])
    ELSE [c EXCEPT !.transports[t].piped = FALSE]

\* One line of the body of request t reaches the parser piped from it.
onLine(c, t, line) ==
  IF c.transports[t].piped /\ Parse(line) # <<>>
    THEN write(c, Parse(line)[1])
    ELSE c

\* The lines of one chunk reach the parser in the order they have in the chunk.
RECURSIVE onLines(_, _, _)
onLines(c, t, lines) ==
  IF Len(lines) = 0 THEN c
  ELSE onLines(onLine(c, t, lines[1]), t, Tail(lines))

---------------------------------------------------------------------------
\* The inputs of the operations.

Statuses == {200, 401, 420, 500, 503}
Randoms == 0 .. RandomDenom - 1
KeywordLists == UNION {[1 .. n -> Keywords] : n \in 1 .. MaxListLen}
AnyKeywordLists == UNION {[1 .. n -> AllKeywords] : n \in 1 .. MaxListLen}
Records ==
  {r \in [FieldNames -> {"absent", "falsy", "truthy"}] :
     Cardinality({f \in FieldNames : r[f] # "absent"}) <= MaxFields}
Lines == {[json |-> FALSE, data |-> NoRecord]} \cup {[json |-> TRUE, data |-> r] : r \in Records}
UsedKinds == {KindList[i] : i \in 1 .. (IF NumKinds < Len(KindList) THEN NumKinds ELSE Len(KindList))}
Only(field) == [f \in FieldNames |-> IF f = field THEN "truthy" ELSE "absent"]
\* {"text":"hi"}, {"delete":{"id":1}}, not json, {"limit":{"track":5}}
SampleSequence ==
  <<[json |-> TRUE, data |-> Only("text")], [json |-> TRUE, data |-> Only("delete")],
    [json |-> FALSE, data |-> NoRecord], [json |-> TRUE, data |-> Only("limit")]>>
SampleLines == {SampleSequence[i] : i \in 1 .. Len(SampleSequence)}

RECURSIVE Refs(_)
Refs(f) ==
  IF Len(f) = 0 THEN 0
  ELSE (IF f[1].count = NaN THEN 1 ELSE f[1].count) + Refs(Tail(f))
TotalRefs(c) ==
  Refs(c.filters[FILTER_TYPE_TRACKING]) + Refs(c.filters[FILTER_TYPE_LOCATION])
    + Refs(c.filters[FILTER_TYPE_FOLLOW]) + Refs(c.filters[FILTER_TYPE_LANGUAGE])

\* The references the host holds, all kinds and keywords together.
RECURSIVE Sum(_, _)
Sum(g, S) ==
  IF S = {} THEN 0
  ELSE LET x == CHOOSE y \in S : TRUE IN g[x] + Sum(g, S \ {x})
Held(c) == Sum([kind \in Kinds |-> Sum(c.refs[kind], AllKeywords)], Kinds)

RECURSIVE Nth(_, _, _)
Nth(x, tier, n) == IF n = 0 THEN x ELSE Nth(step(tier, x), tier, n - 1)

\* Fewer than MaxDraws values were drawn from the three closures since backoffs().
FewDraws(c) ==
  \E n, h, r \in 0 .. MaxDraws :
    /\ n + h + r < MaxDraws
    /\ c.networkBackoff = Nth(NetworkInitial, "network", n)
    /\ c.httpBackoff = Nth(HttpInitial, "http", h)
    /\ c.rateBackoff = Nth(RateInitial, "rate", r)

\* Which draws a run makes: in a short run at most MaxDraws values are drawn between
\* two resets; a long run may also call one closure until it throws while the other
\* two are as backoffs() left them.
MayDrawNetwork(c, long) ==
  FewDraws(c) \/ (long /\ c.httpBackoff = HttpInitial /\ c.rateBackoff = RateInitial)
MayDrawHttp(c, long) ==
  FewDraws(c) \/ (long /\ c.networkBackoff = NetworkInitial /\ c.rateBackoff = RateInitial)
MayDrawRate(c, long) ==
  FewDraws(c) \/ (long /\ c.networkBackoff = NetworkInitial /\ c.httpBackoff = HttpInitial)
MayDraw(c, statusCode, long) ==
  CASE statusCode = 420 -> MayDrawRate(c, long)
    [] statusCode = 503 -> MayDrawHttp(c, long)
    [] OTHER -> TRUE

---------------------------------------------------------------------------
\* The state machine.

Becomes(c) ==
  /\ ~c.over
  /\ filters' = c.filters
  /\ stale' = c.stale
  /\ stream' = c.stream
  /\ parser' = c.parser
  /\ timeout' = c.timeout
  /\ connectBackoff' = c.connectBackoff
  /\ networkBackoff' = c.networkBackoff
  /\ httpBackoff' = c.httpBackoff
  /\ rateBackoff' = c.rateBackoff
  /\ errorListeners' = c.errorListeners
  /\ transports' = c.transports
  /\ timers' = c.timers
  /\ stallTimers' = c.stallTimers
  /\ crashed' = c.crashed
  /\ obs' = c.obs
  /\ used' = c.used
  /\ refs' = c.refs

\* The client after an operation: c is evaluated once.
Install(result) == \E c \in {result} : Becomes(c)

\* The 420 responses handled since a reconnect timer last fired, in a run that
\* watches them: how many (3 for more than two), the timers their handlers
\* scheduled and the 'reconnect' notifications they emitted.
NoWindow == [responses |-> 0, scheduled |-> 0, reconnects |-> 0]
UpTo3(n) == IF n < 3 THEN n ELSE 3
Observed420(w, o) ==
  [responses |-> UpTo3(w.responses + 1),
   scheduled |-> UpTo3(w.scheduled + o.scheduled),
   reconnects |-> UpTo3(w.reconnects + Len(SelectSeq(o.out, LAMBDA e : e.ev = "reconnect")))]
Watch(watch, w) == window' = IF watch THEN w ELSE window

Init ==
  /\ filters = [k \in Kinds |-> <<>>]
  /\ stale = FALSE
  /\ stream = 0
  /\ parser = 0
  /\ timeout = FALSE
  /\ connectBackoff = Zero
  /\ networkBackoff = NetworkInitial
  /\ httpBackoff = HttpInitial
  /\ rateBackoff = RateInitial
  /\ errorListeners = FALSE
  /\ transports = [t \in Ids |-> NoTransport]
  /\ timers = [resp |-> 0, net |-> 0]
  /\ stallTimers = 0
  /\ crashed = FALSE
  /\ obs = Started("new", 0)
  /\ used = [tier \in Tiers |-> Fresh]
  /\ refs = [kind \in Kinds |-> [keyword \in AllKeywords |-> 0]]
  /\ window = NoWindow

\* track, trackMultiple, location, follow, language
AddFilter(filter, keywords, reconn) ==
  /\ ~crashed
  /\ TotalRefs(Self) + Len(keywords) <= MaxRefs
  /\ Held(Self) + Len(keywords) <= MaxRefs
  /\ Install(addFilter(Begin(Self, "addFilter", 0), filter, keywords, reconn))
  /\ UNCHANGED window

\* untrack, unlocate, unfollow, unlanguage
RemoveFilter(filter, keyword, reconn) ==
  /\ ~crashed
  /\ Install(removeFilter(Begin(Self, "removeFilter", 0), filter, keyword, reconn))
  /\ UNCHANGED window

\* untrackAll and removeAllFilters
RemoveAllFilters(filter, reconn) ==
  /\ ~crashed
  /\ Install(removeAllFilters(Begin(Self, "removeAllFilters", 0), filter, reconn))
  /\ UNCHANGED window

\* a call of reconnect() by the host
Reconnect ==
  /\ ~crashed
  /\ Install(reconnect(Begin(Self, "reconnect", 0)))
  /\ UNCHANGED window

\* request t raises 'response'
Response(t, statusCode, u, long, watch) ==
  /\ ~crashed
  /\ transports[t].phase = "connecting"
  /\ MayDraw(Self, statusCode, long)
  /\ Install(onResponse(Begin(Self, "response", statusCode), t, statusCode, u))
  /\ Watch(watch, IF statusCode = 420 /\ obs'.threw = "no"
                    THEN Observed420(window, obs')
                    ELSE window)

\* request t raises 'error', before or after its response
NetworkError(t, u, long) ==
  /\ ~crashed
  /\ transports[t].phase # "none"
  /\ MayDrawNetwork(Self, long)
  /\ Install(onError(Begin(Self, "error", 0), t, u))
  /\ UNCHANGED window

\* a reconnect timer set by the 'response' handler fires
ResponseTimer(watch) ==
  /\ ~crashed
  /\ timers.resp > 0
  /\ Install(responseTimerCallback(
       [Begin(Self, "responseTimer", 0) EXCEPT !.timers.resp = @ - 1]))
  /\ Watch(watch, NoWindow)

\* a reconnect timer set by the 'error' handler fires
ErrorTimer(watch) ==
  /\ ~crashed
  /\ timers.net > 0
  /\ Install(errorTimerCallback(
       [Begin(Self, "errorTimer", 0) EXCEPT !.timers.net = @ - 1]))
  /\ Watch(watch, NoWindow)

\* the stall timer whose handle is in this.timeout fires
StallTimer ==
  /\ ~crashed
  /\ timeout
  /\ Install(close([Begin(Self, "stall", 0) EXCEPT !.timeout = FALSE]))
  /\ UNCHANGED window

\* a stall timer whose handle was overwritten fires
LostStallTimer ==
  /\ ~crashed
  /\ stallTimers > 0
  /\ Install(close([Begin(Self, "stall", 0) EXCEPT !.stallTimers = @ - 1]))
  /\ UNCHANGED window

\* a chunk holding one line arrives in the body of request t
Data(t, line) ==
  /\ ~crashed
  /\ transports[t].phase = "streaming"
  /\ Install(onLine(onData([Begin(Self, "data", 0) EXCEPT !.obs.line = line]), t, line))
  /\ UNCHANGED window

\* a chunk holding the first n lines of the sample arrives in the body of request t
Chunk(t, n) ==
  /\ ~crashed
  /\ transports[t].phase = "streaming"
  /\ Install(onLines(onData(Begin(Self, "chunk", n)), t, SubSeq(SampleSequence, 1, n)))
  /\ UNCHANGED window

\* A call of this.networkBackoff(), this.httpBackoff() or this.rateBackoff() alone,
\* and of this.backoffs() alone: the closures as functions.
CallNetworkBackoff ==
  /\ Install(callNetworkBackoff(Begin(Self, "networkBackoff", 0)))
  /\ UNCHANGED window
CallHttpBackoff ==
  /\ Install(callHttpBackoff(Begin(Self, "httpBackoff", 0)))
  /\ UNCHANGED window
CallRateBackoff ==
  /\ Install(callRateBackoff(Begin(Self, "rateBackoff", 0)))
  /\ UNCHANGED window
CallBackoffs ==
  /\ Install(Renewed(backoffs(Begin(Self, "backoffs", 0))))
  /\ UNCHANGED window

\* What happens to a client whose host adds keywords and then leaves it alone:
\* responses, failures and reconnect timers.
Unattended(long, watch) ==
  \/ \E filter \in UsedKinds, keywords \in KeywordLists : AddFilter(filter, keywords, TRUE)
  \/ \E t \in Ids, statusCode \in Statuses, u \in Randoms :
       Response(t, statusCode, u, long, watch)
  \/ \E t \in Ids, u \in Randoms : NetworkError(t, u, long)
  \/ ResponseTimer(watch)
  \/ ErrorTimer(watch)

\* The host removes a keyword, with the reconnect.
Removal == \E filter \in UsedKinds, keyword \in Keywords : RemoveFilter(filter, keyword, TRUE)

\* Mutations that leave the reconnect to the host, reconnect(), stalls and data.
Rest ==
  \/ \E filter \in UsedKinds, keywords \in KeywordLists : AddFilter(filter, keywords, FALSE)
  \/ \E filter \in UsedKinds, keyword \in Keywords : RemoveFilter(filter, keyword, FALSE)
  \/ \E filter \in UsedKinds, reconn \in BOOLEAN : RemoveAllFilters(filter, reconn)
  \/ Reconnect
  \/ StallTimer
  \/ LostStallTimer
  \/ \E t \in Ids, line \in SampleLines : Data(t, line)

Next == Unattended(FALSE, FALSE) \/ Removal \/ Rest

Spec == Init /\ [][Next]_vars

\* The runs of additions, removals, responses, failures and reconnect timers in
\* which the 420 responses are watched.
NextWatched == Unattended(FALSE, TRUE) \/ Removal
SpecWatched == Init /\ [][NextWatched]_vars

\* The runs of an unattended client, in which one closure may be called until it
\* throws.
NextLong == Unattended(TRUE, FALSE)
SpecLong == Init /\ [][NextLong]_vars

\* The host's calls with any keyword, 'constructor' among them, on a client whose
\* requests are answered 200.
NextFilters ==
  \/ \E filter \in UsedKinds, keywords \in AnyKeywordLists, reconn \in BOOLEAN :
       AddFilter(filter, keywords, reconn)
  \/ \E filter \in UsedKinds, keyword \in AllKeywords, reconn \in BOOLEAN :
       RemoveFilter(filter, keyword, reconn)
  \/ \E filter \in UsedKinds, reconn \in BOOLEAN : RemoveAllFilters(filter, reconn)
  \/ Reconnect
  \/ \E t \in Ids : Response(t, 200, 0, FALSE, FALSE)
SpecFilters == Init /\ [][NextFilters]_vars

\* The host's calls with the reconnect left at its default, true, with any keyword,
\* on a client whose requests are answered.
NextAuto ==
  \/ \E filter \in UsedKinds, keywords \in AnyKeywordLists : AddFilter(filter, keywords, TRUE)
  \/ \E filter \in UsedKinds, keyword \in AllKeywords : RemoveFilter(filter, keyword, TRUE)
  \/ \E t \in Ids, statusCode \in Statuses : Response(t, statusCode, 0, FALSE, FALSE)
  \/ ResponseTimer(FALSE)
SpecAuto == Init /\ [][NextAuto]_vars

\* One keyword tracked, the request answered 200, and any line in its body.
NextRecords ==
  \/ \E filter \in UsedKinds, keywords \in KeywordLists : AddFilter(filter, keywords, TRUE)
  \/ \E t \in Ids : Response(t, 200, 0, FALSE, FALSE)
  \/ \E t \in Ids, line \in Lines : Data(t, line)
SpecRecords == Init /\ [][NextRecords]_vars

\* Keywords tracked and released, the requests answered, and the sample lines in
\* the body of a request, one by one or several in a chunk.
NextLines ==
  \/ \E filter \in UsedKinds, keywords \in KeywordLists, reconn \in BOOLEAN :
       AddFilter(filter, keywords, reconn)
  \/ \E filter \in UsedKinds, keyword \in Keywords, reconn \in BOOLEAN :
       RemoveFilter(filter, keyword, reconn)
  \/ \E filter \in UsedKinds, reconn \in BOOLEAN : RemoveAllFilters(filter, reconn)
  \/ Reconnect
  \/ \E t \in Ids, statusCode \in Statuses : Response(t, statusCode, 0, FALSE, FALSE)
  \/ \E t \in Ids, line \in SampleLines : Data(t, line)
  \/ \E t \in Ids, n \in 1 .. Len(SampleSequence) : Chunk(t, n)
  \/ StallTimer
SpecLines == Init /\ [][NextLines]_vars

\* The three closures called in any order, and replaced at any time.
NextBackoff == CallNetworkBackoff \/ CallHttpBackoff \/ CallRateBackoff \/ CallBackoffs
SpecBackoff == Init /\ [][NextBackoff]_vars

---------------------------------------------------------------------------
\* What the last operation was.

PendingTimers == timers.resp + timers.net
IsNetworkFailure == obs.op = "error"
IsRateLimited == obs.op = "response" /\ (obs.arg = 420 \/ obs.arg = 503)
IsRecoverableFailure == IsNetworkFailure \/ IsRateLimited
\* the failure handler ran to its end: its draw did not throw
Handled == obs.threw = "no"
\* the draw of the failure handler found the sequence past its ceiling
Exhausted == obs.threw = "Exceeded twitter rate limit"
ReconnectsEmitted == Len(SelectSeq(obs.out, LAMBDA e : e.ev = "reconnect"))
ErrorsEmitted == Len(SelectSeq(obs.out, LAMBDA e : e.ev = "error"))

---------------------------------------------------------------------------
\* C1: after a network failure, a 420 or a 503 handled while some filter kind is
\* non-empty and the drawn sequence is not exhausted, a reconnect timer is pending
\* when the handler returns (so that connect() is invoked again when it fires),
\* after any earlier sequence of failures, timer firings and connections.
C1_ReconnectNeverDropped ==
  (IsRecoverableFailure /\ Handled /\ hasFilters(Self)) => PendingTimers >= 1

\* C2: at most one transport (a request issued and not aborted) exists in every
\* reachable state, under any interleaving of mutations, reconnect() calls,
\* responses, network errors and timer firings.
C2_AtMostOneTransport == Cardinality(Live(Self)) <= 1

\* C3: at most one reconnect timer is scheduled and not yet fired in every
\* reachable state, also when a failure arrives while the timer of the first
\* network failure (raw delay 0) is pending.
C3_AtMostOneReconnectTimer == PendingTimers <= 1

\* C4: every recoverable failure emits exactly one 'reconnect' notification, and of
\* two 420 responses with no reconnect-timer firing between them exactly one timer
\* is scheduled (scheduled by the two, or else pending after the second) and exactly
\* two notifications are emitted.
C4_TwoRateLimitsOneTimer ==
  /\ (IsRecoverableFailure /\ Handled) => ReconnectsEmitted = 1
  /\ (obs.op = "response" /\ obs.arg = 420 /\ Handled /\ window.responses = 2) =>
       /\ window.scheduled = 1 \/ PendingTimers = 1
       /\ window.reconnects = 2

\* C5: a draw that finds its sequence past the ceiling surfaces as a fatal 'error'
\* notification emitted exactly once; no active transport remains and the event
\* schedules no reconnect timer.
C5_ExhaustionIsFatalError ==
  (IsRecoverableFailure /\ Exhausted) =>
    /\ ErrorsEmitted = 1
    /\ stream = 0
    /\ obs.scheduled = 0

\* C6: a 200 response resets the three sequences: the first value drawn from each
\* closure after it, whatever was drawn before, is the initial value of its tier
\* (0, 1000 and 1000).
Is200 == obs.op = "response" /\ obs.arg = 200
InitialOf(tier) ==
  CASE tier = "network" -> 0
    [] tier = "http" -> 1000
    [] tier = "rate" -> 1000
C6_SuccessResetsBackoffs ==
  /\ Is200 =>
       /\ \A tier \in Tiers : used[tier].state = "fresh"
       /\ callNetworkBackoff(Self).obs.threw = "no"
       /\ callNetworkBackoff(Self).obs.raw = InitialOf("network")
       /\ callHttpBackoff(Self).obs.threw = "no"
       /\ callHttpBackoff(Self).obs.raw = InitialOf("http")
       /\ callRateBackoff(Self).obs.threw = "no"
       /\ callRateBackoff(Self).obs.raw = InitialOf("rate")
  /\ (obs.drew # "" /\ obs.from.state = "fresh") =>
       /\ Handled
       /\ obs.raw = InitialOf(obs.drew)
\* a network failure draws 0 again after the sequence had reached 250 and a 200
\* response came
C6_Witness ==
  /\ IsNetworkFailure /\ Handled
  /\ obs.from.state = "fresh" /\ obs.raw = 0
  /\ connectBackoff.backoff = 250

\* C7: the values one closure returns between two resets are non-decreasing and
\* never above the ceiling of its tier (0, 250, ..., 16000; 1000, 2000, ..., 256000;
\* 1000 doubling up to at most 2147483647), and the first call that finds the
\* value above the ceiling throws and returns nothing.
RECURSIVE Pow2(_)
Pow2(k) == IF k = 0 THEN 1 ELSE 2 * Pow2(k - 1)
ValuesOf(tier) ==
  CASE tier = "network" -> {250 * k : k \in 0 .. 64}
    [] tier = "http" -> {1000 * Pow2(k) : k \in 0 .. 8}
    [] tier = "rate" -> {1000 * Pow2(k) : k \in 0 .. 21}
CeilingOf(tier) ==
  CASE tier = "network" -> 16000
    [] tier = "http" -> 320000
    [] tier = "rate" -> 2147483647
\* the value after v in the sequence of tier is above the ceiling
LastOf(tier, v) ==
  CASE tier = "network" -> v + 250 > 16000
    [] tier = "http" -> v * 2 > 320000
    [] tier = "rate" -> v > 2147483647 \div 2
C7_BackoffSequences ==
  obs.drew # "" =>
    /\ Handled =>
         /\ obs.raw \in ValuesOf(obs.drew)
         /\ obs.raw <= CeilingOf(obs.drew)
         /\ obs.from.state = "drawn" => obs.raw >= obs.from.last
         /\ obs.from.state = "drawn" => ~LastOf(obs.drew, obs.from.last)
    /\ Exhausted =>
         /\ obs.from.state = "drawn"
         /\ LastOf(obs.drew, obs.from.last)
         /\ used[obs.drew] = obs.from
\* the rate-limit closure throws after 2097152000, the others having reached 16000
\* and 256000
C7_Witness ==
  /\ obs.drew = "rate" /\ Exhausted /\ obs.from.last = 2097152000
  /\ used["network"].last = 16000
  /\ used["http"].last = 256000

\* C8: a response with a status above 200 other than 420 and 503 aborts the
\* transport, emits exactly one 'error' notification carrying the status code,
\* schedules no reconnect timer, advances no backoff sequence and calls no connect().
IsHttpError == obs.op = "response" /\ obs.arg > 200 /\ obs.arg # 420 /\ obs.arg # 503
C8_OtherStatusIsFatal ==
  IsHttpError =>
    /\ stream = 0
    /\ Len(obs.out) = 1
    /\ obs.out[1].ev = "error" /\ obs.out[1].code = obs.arg
    /\ obs.scheduled = 0
    /\ obs.drew = ""
    /\ obs.connects = 0 /\ obs.issued = 0
\* a 500 response, outside the explanation table, after which no request is alive
C8_Witness == IsHttpError /\ obs.arg = 500 /\ obs.aborted # 0 /\ Live(Self) = {}

\* C9: when the stall watchdog fires, the active transport is aborted, one
\* 'reconnect' notification with reason 'stall' and delay 0 is emitted, and connect()
\* is called whether stale is set or not; with a non-empty filter kind it issues a
\* request built from the current filters.
C9_StallForcesReconnect ==
  [][obs'.op = "stall" =>
       /\ stream # 0 => obs'.aborted = stream
       /\ obs'.out = <<Event("reconnect", "stall", 0, Zero)>>
       /\ obs'.connects = 1
       /\ ~stale'
       /\ (\E kind \in Kinds : filters'[kind] # <<>>) =>
            /\ obs'.issued # 0
            /\ stream' = obs'.issued
            /\ transports'[stream'] =
                 [phase |-> "connecting", form |-> Form([filters |-> filters']),
                  piped |-> FALSE]
       /\ (\A kind \in Kinds : filters'[kind] = <<>>) => (obs'.issued = 0 /\ stream' = 0)
    ]_vars
\* the watchdog fired on a streaming transport and a request was issued in its place
C9_Witness == obs.op = "stall" /\ obs.aborted # 0 /\ obs.issued # 0 /\ stream = obs.issued

\* C10: no request is issued while the four filter kinds are empty, whoever calls
\* connect(): a mutator, reconnect(), a reconnect timer or the stall watchdog.
AllEmpty == \A kind \in Kinds : filters[kind] = <<>>
C10_NoRequestWhileEmpty ==
  /\ AllEmpty => obs.issued = 0
  /\ obs.issued # 0 => transports[obs.issued].form # NoForm
\* the stall watchdog called connect() with every kind empty
C10_Witness == obs.op = "stall" /\ AllEmpty /\ obs.connects = 1 /\ obs.issued = 0

\* C11: the keywords a kind's accessor returns are exactly those whose reference
\* count (adds minus the removes that found a reference) is above 0, so that
\* removing an absent keyword changes nothing, and no stored count is zero or
\* negative.
Accessor(kind) == {Keys(filters[kind])[i] : i \in 1 .. Len(filters[kind])}
Referenced(kind) == {keyword \in AllKeywords : refs[kind][keyword] > 0}
C11_KeywordsAreReferenced ==
  \A kind \in Kinds :
    /\ Accessor(kind) = Referenced(kind)
    /\ \A i \in 1 .. Len(filters[kind]) :
         filters[kind][i].count = NaN \/ filters[kind][i].count > 0

\* C12: stale goes from true to false only in an operation whose connect() issues a
\* request, and a connect() made while every filter kind is empty leaves stale as
\* it was.
C12_StaleClearedByRequest ==
  [][/\ (stale /\ ~stale') => obs'.issued # 0
     /\ (obs'.connects > 0 /\ \A kind \in Kinds : filters'[kind] = <<>>) => stale' = stale
    ]_vars

\* C13: with the reconnect flag true, an add or a remove goes through the reconnect
\* path (the active transport, if any, is aborted and connect() runs on the filters
\* as the call left them) exactly when it changed which keywords the accessors
\* return; a call that changed none changes neither stale nor the transport.
C13_ReconnectIffMembershipChanged ==
  [][obs'.op \in {"addFilter", "removeFilter"} =>
       IF \E kind \in Kinds : Keys(filters'[kind]) # Keys(filters[kind])
         THEN /\ obs'.connects = 1
              /\ stream # 0 => obs'.aborted = stream
              /\ (\E kind \in Kinds : filters'[kind] # <<>>) =>
                   /\ obs'.issued # 0
                   /\ stream' = obs'.issued
                   /\ transports'[stream'].form = Form([filters |-> filters'])
         ELSE /\ obs'.connects = 0
              /\ stale' = stale
              /\ stream' = stream
              /\ transports' = transports
    ]_vars

\* C14: reconnect() called with stale false aborts nothing, issues no request and
\* changes no state; called with stale true and an active transport it aborts that
\* transport and then calls connect().
C14_ReconnectOnlyWhenStale ==
  [][obs'.op = "reconnect" =>
       /\ ~stale =>
            /\ obs'.aborted = 0 /\ obs'.issued = 0 /\ obs'.connects = 0
            /\ UNCHANGED <<filters, stale, stream, parser, timeout, connectBackoff,
                           networkBackoff, httpBackoff, rateBackoff, errorListeners,
                           transports, timers, stallTimers, crashed>>
       /\ (stale /\ stream # 0) =>
            /\ obs'.aborted = stream
            /\ obs'.connects = 1
            /\ (obs'.issued # stream) => transports'[stream] = NoTransport
       /\ (stale /\ stream = 0) => (obs'.aborted = 0 /\ obs'.connects = 1)
    ]_vars
\* reconnect() found stale set and a transport active, aborted it and issued a request
C14_Witness ==
  obs.op = "reconnect" /\ obs.aborted # 0 /\ obs.connects = 1 /\ obs.issued # 0

\* C15: a decoded record emits exactly one event, of the kind of the first field it
\* carries in the order text, delete, scrub_geo, limit, status_withheld,
\* user_withheld, disconnect, warning, and a record that carries none emits nothing.
KindOf(field) == IF field = "text" THEN "tweet" ELSE field
Carried(data) == {i \in 1 .. Len(Fields) : data[Fields[i]] # "absent"}
C15_FirstFieldPresent ==
  (obs.op = "data" /\ obs.line.json) =>
    IF Carried(obs.line.data) = {}
      THEN obs.out = <<>>
      ELSE /\ Len(obs.out) = 1
           /\ obs.out[1].ev = KindOf(Fields[Lowest(Carried(obs.line.data))])

\* C16 as stated: the lines {"text":"hi"}, {"delete":{"id":1}}, not json,
\* {"limit":{"track":5}} received on one transport fire exactly two events, tweet
\* then limit.
Emitted == [i \in 1 .. Len(obs.out) |-> obs.out[i].ev]
C16_TweetThenLimit == (obs.op = "chunk" /\ obs.arg = 4) => Emitted = <<"tweet", "limit">>

\* C16: the four lines received in this order on one transport fire exactly three
\* events, tweet, delete and limit in this order: the line that is not JSON fires
\* none, and the line after it is processed.
C16_TweetDeleteLimit ==
  obs.op = "chunk" =>
    Emitted = CASE obs.arg = 1 -> <<"tweet">>
                [] obs.arg = 2 -> <<"tweet", "delete">>
                [] obs.arg = 3 -> <<"tweet", "delete">>
                [] obs.arg = 4 -> <<"tweet", "delete", "limit">>
\* the four lines were received and the last one fired its event
C16_Witness == obs.op = "chunk" /\ obs.arg = 4 /\ Len(obs.out) = 3 /\ timeout

\* C17: while a reconnect timer is pending, a request is issued only by the firing
\* of a reconnect timer: no mutation of the filters and no reconnect() call issues
\* one before.
C17_OnlyTheTimerReconnects ==
  [][(PendingTimers > 0 /\ obs'.issued # 0) => obs'.op \in {"responseTimer", "errorTimer"}]_vars

\* C18: connectBackoff is non-zero exactly when a reconnect timer is scheduled and
\* has not fired yet, whichever handler scheduled it.
C18_MarkerIffTimerPending == (connectBackoff # Zero) <=> (PendingTimers > 0)

\* C19: whenever stale is false and a transport is active, the four keyword lists
\* sent in its request are the keywords the four accessors return now.
C19_RequestMatchesFilters ==
  (~stale /\ stream # 0) => transports[stream].form = Form(Self)

\* C20: at most one stall timer is armed, and none is armed when there is no active
\* transport.
ArmedStallTimers == (IF timeout THEN 1 ELSE 0) + stallTimers
C20_StallTimerOnlyWhileStreaming ==
  /\ ArmedStallTimers <= 1
  /\ stream = 0 => ArmedStallTimers = 0

====
